---- MODULE Spec2Model ----
(***************************************************************************)
(* Vote ledger of the Q&A forum backend: the Vote collection with its      *)
(* unique (voter, target, targetType) index, the voteScore counter kept on *)
(* questions and answers, and the author's reputation kept on users.       *)
(*                                                                         *)
(* Every database round trip (each `await` on a Mongoose call) is one      *)
(* atomic step of a request handler, so handlers of different requests     *)
(* interleave between round trips.                                          *)
(*                                                                         *)
(* Bindings taken for calls whose callee is named differently in the       *)
(* source:                                                                 *)
(*  - voteController.castVote calls Vote.castVote; the Vote model defines  *)
(*    the vote decision as the static toggleVote, which is what the call   *)
(*    is bound to here.                                                    *)
(*  - toggleVote calls existingVote.remove(); it is modelled as running    *)
(*    the pre('remove') hook and then deleting the row by _id, which is    *)
(*    what the hook registration in the Vote model is written for.         *)
(*  - request-body validation (Joi) is outside the model: requests carry   *)
(*    a well-formed target, targetType and voteType.                       *)
(***************************************************************************)
EXTENDS Integers, Sequences, FiniteSets, TLC

(* ---------------------------- bounds ----------------------------------- *)
NumProcs == 2
MaxCalls == 2
MaxSeqCalls == 3
MaxPairCalls == 2
MaxRaceCalls == 4
MaxInitRep == 2
MaxAcceptCalls == 3
MaxViewCalls == 3
MaxTagCalls == 3
MaxTime == 3
MaxRowRaceCalls == 3
MaxScoreCalls == 3
MaxSeqRemoveCalls == 3
MaxLiveCalls == 3
MaxAcceptDeleteCalls == 3
MaxAnswerSeqCalls == 3
MaxQuestionSeqCalls == 3
MaxQuestionCalls == 2

(* ---------------------------- constants -------------------------------- *)
UPVOTE == "upvote"
DOWNVOTE == "downvote"
VOTE_TYPES == {UPVOTE, DOWNVOTE}

Users == {"A", "B", "C"}
Questions == {"t1"}
Answers == {"t2"}
TargetIds == Questions \cup Answers

\* author field of the stored targets
Author(t) == "A"

\* (target, targetType) pairs of requests that name a stored target
ValidRequests == {<<"t1", "question">>, <<"t2", "answer">>}

\* a (target, targetType) pair naming an id that is not in the collection of
\* its targetType
MissingRequest == <<"t2", "question">>

Procs == 1 .. NumProcs
InitReps == (0 .. MaxInitRep) \cup {100}

NoVote == [id |-> 0, voteType |-> "none"]

Max(a, b) == IF a >= b THEN a ELSE b

(* ------------- forum documents outside the vote ledger ------------------ *)
\* users.role: C is the administrator
Role(u) == IF u = "C" THEN "admin" ELSE "user"

\* the answers stored for question t1, none of them deleted
AnswerDocs == {"a1", "a2"}

\* an answer id with no stored answer
MissingAnswer == "a0"

\* answers.author: createAnswer refuses an answer to one's own question
AnswerAuthor(a) == IF a = "a1" THEN "B" ELSE "C"

\* a question id with no stored question
MissingQuestion == "t0"

\* who looks at a question: <<req.user._id or null, req.ip>>
Viewers == {<<"B", "ip1">>, <<"null", "ip1">>, <<"null", "ip2">>}

\* tags.name values sent to createTag
TagNames == {"js", "go"}

\* a tag id with no stored tag; createTag gives a tag the number of its request
MissingTag == 0

\* 60 * 60 * 1000 ms, the cooldown of recordView
oneHour == 60 * 60 * 1000

\* the clock moves in steps of half an hour
HalfHour == oneHour \div 2

\* QUESTION_STATUS
ACTIVE == "active"
CLOSED == "closed"
DELETED == "deleted"
QUESTION_STATUS == {ACTIVE, CLOSED, DELETED}

\* ids of the tags stored for use by questions
QTags == {"g1", "g2"}

\* a tag id with no stored tag, as sent in a question's tag list
MissingQTag == "g0"

\* the tag lists sent with createQuestion and updateQuestion
TagLists == {{"g1"}, {"g2"}, {"g1", "g2"}, {"g1", MissingQTag}}

\* the _id given to the question created by request number n
QuestionIdOf(n) == <<"q1", "q2", "q3", "q4", "q5", "q6">>[n]

\* no handler of answer, question or tag requests running
ReqIdle ==
  [pc |-> "idle", op |-> "none", user |-> "A", target |-> "none",
   ip |-> "none", tagId |-> 0, loaded |-> "none", result |-> "none",
   preRep |-> 0, docId |-> 0, tagList |-> {}, oldTags |-> {},
   wasAccepted |-> FALSE]

(* ---------------------------- pure helpers ----------------------------- *)
\* variant: the downvote award of a question entered as -5
calculateReputationChange_downvote5(action) ==
  CASE action = "question_upvote" -> 5
    [] action = "question_downvote" -> 0 - 5
    [] action = "answer_upvote" -> 10
    [] action = "answer_downvote" -> 0 - 2
    [] action = "answer_accepted" -> 15
    [] action = "accept_answer" -> 2
    [] OTHER -> 0

calculateReputationChange(action) ==
  CASE action = "question_upvote" -> 5
    [] action = "question_downvote" -> 0 - 2
    [] action = "answer_upvote" -> 10
    [] action = "answer_downvote" -> 0 - 2
    [] action = "answer_accepted" -> 15
    [] action = "accept_answer" -> 2
    [] OTHER -> 0

\* the key castVote and removeVote build for calculateReputationChange
RepKey(targetType, voteType) ==
  IF targetType = "question"
    THEN (IF voteType = "upvote" THEN "question_upvote" ELSE "question_downvote")
    ELSE (IF voteType = "upvote" THEN "answer_upvote" ELSE "answer_downvote")

\* variant: the target lookup finding a document for every id
TargetExists_always(t, targetType) == TRUE

\* Question.findById / Answer.findById: is there a document with this id in
\* the collection selected by targetType
TargetExists(t, targetType) ==
  \/ targetType = "question" /\ t \in Questions
  \/ targetType = "answer" /\ t \in Answers

VARIABLES votes, voteScore, reputation, nextId, proc, calls, hist

\* answer acceptance, view tracking and tags
VARIABLES isAccepted, acceptedAnswer, viewHistory, views, now, tags, req

\* deleted and created answers, the answer counter, the question documents and
\* the usage counters of their tags
VARIABLES isDeleted, newAnswers, answerCount, questions, usageCount

voteVars == <<votes, voteScore, reputation, nextId, proc, hist>>

qaVars == <<isDeleted, newAnswers, answerCount, questions, usageCount>>

forumVars == <<isAccepted, acceptedAnswer, viewHistory, views, now, tags, req,
               isDeleted, newAnswers, answerCount, questions, usageCount>>

vars == <<votes, voteScore, reputation, nextId, proc, calls, hist,
          isAccepted, acceptedAnswer, viewHistory, views, now, tags, req,
          isDeleted, newAnswers, answerCount, questions, usageCount>>

\* Vote.findOne({voter, target, targetType}) over a state of the collection
FindVotes(vs, v, t, k) ==
  {r \in vs : r.voter = v /\ r.target = t /\ r.targetType = k}

findOne(vs, v, t, k) ==
  IF FindVotes(vs, v, t, k) = {} THEN NoVote
  ELSE LET r == CHOOSE x \in FindVotes(vs, v, t, k) : TRUE
       IN [id |-> r.id, voteType |-> r.voteType]

\* variant: the collection without its unique index
DuplicateKey_noIndex(v, t, k) == FALSE

\* variant: every insert refused as a duplicate
DuplicateKey_always(v, t, k) == TRUE

\* the unique index {voter, target, targetType}: an insert of this key is
\* refused with error code 11000 when a row with the key is stored
DuplicateKey(v, t, k) == FindVotes(votes, v, t, k) # {}

\* voteSchema.methods.updateTargetVoteScore: $inc on the target document of
\* the collection named by targetType (no document, no change)
updateTargetVoteScore(t, targetType, voteValue) ==
  IF TargetExists(t, targetType)
    THEN [voteScore EXCEPT ![t] = @ + voteValue]
    ELSE voteScore

\* variant: a new row counted as +1 whatever its direction
SaveVoteValue_upOnly(voteType) == 1

\* default voteValue of updateTargetVoteScore, used by pre('save') of a new row
SaveVoteValue(voteType) == IF voteType = UPVOTE THEN 1 ELSE 0 - 1

\* variant: pre('remove') applying the vote impact instead of reversing it
RemoveVoteValue_notReversed(voteType) == IF voteType = UPVOTE THEN 1 ELSE 0 - 1

\* voteValue of pre('remove'): reverse the vote impact
RemoveVoteValue(voteType) == IF voteType = UPVOTE THEN 0 - 1 ELSE 1

\* variant: the update branch changing the score by one step only
UpdateScoreChange_single(voteType) == IF voteType = UPVOTE THEN 1 ELSE 0 - 1

\* scoreChange of the update branch of toggleVote
UpdateScoreChange(voteType) == IF voteType = UPVOTE THEN 2 ELSE 0 - 2

\* variant: any existing row is removed, whatever its voteType
ToggleBranch_alwaysRemove(ex, voteType) ==
  IF ex # NoVote THEN "remove" ELSE "create"

\* variant: an existing row is always updated, never removed
ToggleBranch_neverRemove(ex, voteType) ==
  IF ex # NoVote THEN "update" ELSE "create"

\* the branch toggleVote takes on the row it read
ToggleBranch(ex, voteType) ==
  IF ex # NoVote
    THEN (IF ex.voteType = voteType THEN "remove" ELSE "update")
    ELSE "create"

\* variant: castVote without the own-content check
IsOwnContent_unchecked(author, voter) == FALSE

\* castVote: voting on one's own content
IsOwnContent(author, voter) == author = voter

\* variant: the award of a removed vote applied again instead of reversed
ReputationChange_removedNotReversed(action, targetType, voteType) ==
  IF action \in {"created", "removed"}
    THEN calculateReputationChange(RepKey(targetType, voteType))
    ELSE IF action = "updated"
      THEN (IF voteType = "upvote"
              THEN calculateReputationChange(RepKey(targetType, "upvote"))
                     - calculateReputationChange(RepKey(targetType, "downvote"))
              ELSE calculateReputationChange(RepKey(targetType, "downvote"))
                     - calculateReputationChange(RepKey(targetType, "upvote")))
      ELSE 0

\* reputationChange of castVote for the action toggleVote reported
ReputationChange(action, targetType, voteType) ==
  CASE action = "created" ->
         calculateReputationChange(RepKey(targetType, voteType))
    [] action = "updated" ->
         (IF targetType = "question"
            THEN (IF voteType = "upvote"
                    THEN calculateReputationChange("question_upvote")
                           - calculateReputationChange("question_downvote")
                    ELSE calculateReputationChange("question_downvote")
                           - calculateReputationChange("question_upvote"))
            ELSE (IF voteType = "upvote"
                    THEN calculateReputationChange("answer_upvote")
                           - calculateReputationChange("answer_downvote")
                    ELSE calculateReputationChange("answer_downvote")
                           - calculateReputationChange("answer_upvote")))
    [] action = "removed" ->
         0 - calculateReputationChange(RepKey(targetType, voteType))
    [] OTHER -> 0

\* variant: updateReputation without the floor at 0
updateReputation_noFloor(loaded, change) == loaded + change

\* userSchema.methods.updateReputation on a loaded user document whose
\* reputation field was read as `loaded`
updateReputation(loaded, change) == Max(0, loaded + change)

Idle ==
  [pc |-> "idle", op |-> "none", voter |-> "A", target |-> "t1",
   targetType |-> "question", voteType |-> "upvote", ex |-> NoVote,
   action |-> "none", loaded |-> 0, change |-> 0, retries |-> 0,
   seq |-> 0, pre |-> [row |-> NoVote, score |-> 0, rep |-> 0]]

AllIdle == \A p \in Procs : proc[p].pc = "idle"

Init ==
  /\ votes = {}
  /\ voteScore = [t \in TargetIds |-> 0]
  /\ reputation \in {[u \in Users |-> IF u = "A" THEN r ELSE 0] : r \in InitReps}
  /\ nextId = 1
  /\ proc = [p \in Procs |-> Idle]
  /\ calls = 0
  /\ hist = <<>>
  /\ isAccepted = [a \in AnswerDocs |-> FALSE]
  /\ acceptedAnswer = "null"
  /\ viewHistory = <<>>
  /\ views = 0
  /\ now = 0
  /\ tags = {}
  /\ req = [p \in Procs |-> ReqIdle]
  /\ isDeleted = [a \in AnswerDocs |-> FALSE]
  /\ newAnswers = {}
  /\ answerCount = Cardinality(AnswerDocs)
  /\ questions = {[id |-> "t1", author |-> Author("t1"), status |-> ACTIVE,
                   closedBy |-> "null", tags |-> {"g1"}]}
  /\ usageCount = [g \in QTags |-> IF g = "g1" THEN 1 ELSE 0]

\* the response is sent: the handler ends and the outcome is recorded together
\* with the stored state at the time of the response
Finish(p, result, newRep) ==
  /\ hist' = IF proc[p].seq = 0 THEN hist ELSE Append(hist,
       [seq |-> proc[p].seq, op |-> proc[p].op, voter |-> proc[p].voter,
        target |-> proc[p].target, targetType |-> proc[p].targetType,
        voteType |-> proc[p].voteType, result |-> result,
        change |-> proc[p].change, retries |-> proc[p].retries,
        pre |-> proc[p].pre,
        post |-> [row |-> findOne(votes', proc[p].voter, proc[p].target,
                                  proc[p].targetType),
                  score |-> voteScore'[proc[p].target],
                  rep |-> reputation'[Author(proc[p].target)]],
        newReputation |-> newRep])
  /\ proc' = [proc EXCEPT ![p] = Idle]

\* a request arrives and its handler starts; `log` says whether the outcome
\* of this request is recorded in hist
Begin(p, log, op, v, t, k, d) ==
  /\ UNCHANGED forumVars
  /\ proc[p].pc = "idle"
  /\ calls' = calls + 1
  /\ proc' = [proc EXCEPT ![p] =
       [Idle EXCEPT !.pc = IF op = "castVote" THEN "cv_findTarget" ELSE "rv_findOne",
                    !.op = op, !.voter = v, !.target = t, !.targetType = k,
                    !.voteType = d,
                    !.seq = IF log THEN calls + 1 ELSE 0,
                    !.pre = IF log
                              THEN [row |-> findOne(votes, v, t, k),
                                    score |-> voteScore[t],
                                    rep |-> reputation[Author(t)]]
                              ELSE Idle.pre]]
  /\ UNCHANGED <<votes, voteScore, reputation, nextId, hist>>

(* ------------------------- castVote (controller) ------------------------ *)
\* verify target exists, then the own-content check
CvFindTarget(p) ==
  /\ UNCHANGED forumVars
  /\ proc[p].pc = "cv_findTarget"
  /\ UNCHANGED <<votes, voteScore, reputation, nextId, calls>>
  /\ IF ~TargetExists(proc[p].target, proc[p].targetType)
       THEN Finish(p, "404", 0)
       ELSE IF IsOwnContent(Author(proc[p].target), proc[p].voter)
         THEN Finish(p, "400", 0)
         ELSE /\ proc' = [proc EXCEPT ![p].pc = "tv_findOne"]
              /\ UNCHANGED hist

(* ------------------------- Vote.toggleVote ------------------------------ *)
\* check if the user already voted on this target, and branch on the row read
TvFindOne(p) ==
  /\ UNCHANGED forumVars
  /\ proc[p].pc = "tv_findOne"
  /\ LET ex == findOne(votes, proc[p].voter, proc[p].target, proc[p].targetType)
         br == ToggleBranch(ex, proc[p].voteType)
     IN proc' = [proc EXCEPT ![p].ex = ex,
                             ![p].pc = CASE br = "remove" -> "tv_preRemove"
                                         [] br = "update" -> "tv_updateScore"
                                         [] OTHER -> "tv_preSave"]
  /\ UNCHANGED <<votes, voteScore, reputation, nextId, calls, hist>>

\* existingVote.remove(), first part: pre('remove') reverses the vote impact
TvPreRemove(p) ==
  /\ UNCHANGED forumVars
  /\ proc[p].pc = "tv_preRemove"
  /\ voteScore' = updateTargetVoteScore(proc[p].target, proc[p].targetType,
                                        RemoveVoteValue(proc[p].ex.voteType))
  /\ proc' = [proc EXCEPT ![p].pc = "tv_remove"]
  /\ UNCHANGED <<votes, reputation, nextId, calls, hist>>

\* existingVote.remove(), second part: the row with that _id is deleted
TvRemove(p) ==
  /\ UNCHANGED forumVars
  /\ proc[p].pc = "tv_remove"
  /\ votes' = {r \in votes : r.id # proc[p].ex.id}
  /\ proc' = [proc EXCEPT ![p].action = "removed", ![p].pc = "cv_findUser"]
  /\ UNCHANGED <<voteScore, reputation, nextId, calls, hist>>

\* update branch: the score change is written before the row
TvUpdateScore(p) ==
  /\ UNCHANGED forumVars
  /\ proc[p].pc = "tv_updateScore"
  /\ voteScore' = updateTargetVoteScore(proc[p].target, proc[p].targetType,
                                        UpdateScoreChange(proc[p].voteType))
  /\ proc' = [proc EXCEPT ![p].pc = "tv_updateSave"]
  /\ UNCHANGED <<votes, reputation, nextId, calls, hist>>

\* update branch: existingVote.save() writes the new voteType to the row with
\* that _id (isNew is false, so pre('save') changes nothing); a row that is no
\* longer stored makes save() fail with an error other than 11000
TvUpdateSave(p) ==
  /\ UNCHANGED forumVars
  /\ proc[p].pc = "tv_updateSave"
  /\ UNCHANGED <<voteScore, reputation, nextId, calls>>
  /\ IF \E r \in votes : r.id = proc[p].ex.id
       THEN /\ votes' = {IF r.id = proc[p].ex.id
                           THEN [r EXCEPT !.voteType = proc[p].voteType]
                           ELSE r : r \in votes}
            /\ proc' = [proc EXCEPT ![p].action = "updated", ![p].pc = "cv_findUser"]
            /\ UNCHANGED hist
       ELSE /\ votes' = votes
            /\ Finish(p, "500", 0)

\* create branch, first part: pre('save') of the new row updates the score
TvPreSave(p) ==
  /\ UNCHANGED forumVars
  /\ proc[p].pc = "tv_preSave"
  /\ voteScore' = updateTargetVoteScore(proc[p].target, proc[p].targetType,
                                        SaveVoteValue(proc[p].voteType))
  /\ proc' = [proc EXCEPT ![p].pc = "tv_insert"]
  /\ UNCHANGED <<votes, reputation, nextId, calls, hist>>

\* create branch, second part: the insert; error code 11000 is caught and
\* toggleVote calls itself again
TvInsert(p) ==
  /\ UNCHANGED forumVars
  /\ proc[p].pc = "tv_insert"
  /\ UNCHANGED <<voteScore, reputation, calls, hist>>
  /\ IF DuplicateKey(proc[p].voter, proc[p].target, proc[p].targetType)
       THEN /\ proc' = [proc EXCEPT ![p].retries = @ + 1, ![p].pc = "tv_findOne"]
            /\ UNCHANGED <<votes, nextId>>
       ELSE /\ votes' = votes \cup {[id |-> nextId, voter |-> proc[p].voter,
                                     target |-> proc[p].target,
                                     targetType |-> proc[p].targetType,
                                     voteType |-> proc[p].voteType]}
            /\ nextId' = nextId + 1
            /\ proc' = [proc EXCEPT ![p].action = "created", ![p].pc = "cv_findUser"]

(* ------------------------- castVote, after the vote --------------------- *)
\* User.findById(targetModel.author) and the reputationChange computed from
\* the reported action
CvFindUser(p) ==
  /\ UNCHANGED forumVars
  /\ proc[p].pc = "cv_findUser"
  /\ proc' = [proc EXCEPT
       ![p].loaded = reputation[Author(proc[p].target)],
       ![p].change = ReputationChange(proc[p].action, proc[p].targetType,
                                      proc[p].voteType),
       ![p].pc = "cv_updateReputation"]
  /\ UNCHANGED <<votes, voteScore, reputation, nextId, calls, hist>>

\* targetAuthor.updateReputation(reputationChange) when the change is not 0:
\* save() writes the reputation field when its value was modified; then the
\* response with newReputation = targetAuthor.reputation + reputationChange
CvUpdateReputation(p) ==
  /\ UNCHANGED forumVars
  /\ proc[p].pc = "cv_updateReputation"
  /\ LET new == IF proc[p].change # 0
                  THEN updateReputation(proc[p].loaded, proc[p].change)
                  ELSE proc[p].loaded
     IN /\ reputation' = IF new # proc[p].loaded
                           THEN [reputation EXCEPT ![Author(proc[p].target)] = new]
                           ELSE reputation
        /\ UNCHANGED <<votes, voteScore, nextId, calls>>
        /\ Finish(p, proc[p].action, new + proc[p].change)

(* ------------------------- removeVote (controller) ---------------------- *)
\* find the vote of the caller
RvFindOne(p) ==
  /\ UNCHANGED forumVars
  /\ proc[p].pc = "rv_findOne"
  /\ UNCHANGED <<votes, voteScore, reputation, nextId, calls>>
  /\ LET ex == findOne(votes, proc[p].voter, proc[p].target, proc[p].targetType)
     IN IF ex = NoVote
          THEN Finish(p, "404", 0)
          ELSE /\ proc' = [proc EXCEPT ![p].ex = ex, ![p].pc = "rv_delete"]
               /\ UNCHANGED hist

\* Vote.findByIdAndDelete(vote._id): a query, so no document hook runs; then
\* the target is read
RvDelete(p) ==
  /\ UNCHANGED forumVars
  /\ proc[p].pc = "rv_delete"
  /\ votes' = {r \in votes : r.id # proc[p].ex.id}
  /\ UNCHANGED <<voteScore, reputation, nextId, calls>>
  /\ IF TargetExists(proc[p].target, proc[p].targetType)
       THEN /\ proc' = [proc EXCEPT ![p].pc = "rv_findUser"]
            /\ UNCHANGED hist
       ELSE Finish(p, "removed", 0)

\* User.findById(targetModel.author) and the reversed award of the stored vote
RvFindUser(p) ==
  /\ UNCHANGED forumVars
  /\ proc[p].pc = "rv_findUser"
  /\ proc' = [proc EXCEPT
       ![p].loaded = reputation[Author(proc[p].target)],
       ![p].change = 0 - calculateReputationChange(
                           RepKey(proc[p].targetType, proc[p].ex.voteType)),
       ![p].pc = "rv_updateReputation"]
  /\ UNCHANGED <<votes, voteScore, reputation, nextId, calls, hist>>

\* targetAuthor.updateReputation(reputationChange)
RvUpdateReputation(p) ==
  /\ UNCHANGED forumVars
  /\ proc[p].pc = "rv_updateReputation"
  /\ LET new == updateReputation(proc[p].loaded, proc[p].change)
     IN /\ reputation' = IF new # proc[p].loaded
                           THEN [reputation EXCEPT ![Author(proc[p].target)] = new]
                           ELSE reputation
        /\ UNCHANGED <<votes, voteScore, nextId, calls>>
        /\ Finish(p, "removed", 0)

(* ------------------------- specifications ------------------------------- *)
CastStep(p) ==
  \/ CvFindTarget(p)
  \/ TvFindOne(p)
  \/ TvPreRemove(p)
  \/ TvRemove(p)
  \/ TvUpdateScore(p)
  \/ TvUpdateSave(p)
  \/ TvPreSave(p)
  \/ TvInsert(p)
  \/ CvFindUser(p)
  \/ CvUpdateReputation(p)

RemoveStep(p) ==
  \/ RvFindOne(p)
  \/ RvDelete(p)
  \/ RvFindUser(p)
  \/ RvUpdateReputation(p)

\* any castVote or removeVote request by any user on the question
Arrive(p) ==
  /\ calls < MaxCalls
  /\ \E v \in Users :
       \/ \E d \in VOTE_TYPES : Begin(p, FALSE, "castVote", v, "t1", "question", d)
       \/ Begin(p, FALSE, "removeVote", v, "t1", "question", UPVOTE)

\* request handlers overlap freely
Next == \E p \in Procs : Arrive(p) \/ CastStep(p) \/ RemoveStep(p)

Spec == Init /\ [][Next]_vars

\* castVote requests handled one after the other by one handler, outcomes
\* recorded
SeqArrive(p) ==
  /\ AllIdle
  /\ calls < MaxSeqCalls
  /\ \E d \in VOTE_TYPES :
       \/ \E v \in Users, rq \in ValidRequests :
            Begin(p, TRUE, "castVote", v, rq[1], rq[2], d)
       \/ Begin(p, TRUE, "castVote", "B", MissingRequest[1], MissingRequest[2], d)

SeqNext == SeqArrive(1) \/ CastStep(1)

SeqSpec == Init /\ [][SeqNext]_vars

\* castVote requests of voters other than the author on stored targets,
\* overlapping in two handlers, outcomes recorded
PairArrive(p) ==
  /\ calls < MaxPairCalls
  /\ \E v \in Users \ {"A"}, rq \in ValidRequests, d \in VOTE_TYPES :
       Begin(p, TRUE, "castVote", v, rq[1], rq[2], d)

PairNext == \E p \in {1, 2} : PairArrive(p) \/ CastStep(p)

PairSpec == Init /\ [][PairNext]_vars

\* overlapping castVote and removeVote requests of one voter on one question
RaceArrive(p) ==
  /\ calls < MaxRaceCalls
  /\ \/ \E d \in VOTE_TYPES : Begin(p, FALSE, "castVote", "B", "t1", "question", d)
     \/ Begin(p, FALSE, "removeVote", "B", "t1", "question", UPVOTE)

RaceNext == \E p \in Procs : RaceArrive(p) \/ CastStep(p) \/ RemoveStep(p)

RaceSpec == Init /\ [][RaceNext]_vars

\* castVote requests of one voter on one question overlapping in two
\* handlers, outcomes recorded
RowRaceArrive(p) ==
  /\ calls < MaxRowRaceCalls
  /\ \E d \in VOTE_TYPES : Begin(p, TRUE, "castVote", "B", "t1", "question", d)

RowRaceNext == \E p \in {1, 2} : RowRaceArrive(p) \/ CastStep(p)

RowRaceSpec == Init /\ [][RowRaceNext]_vars

\* the voter whose requests a handler serves
VoterOf(p) == IF p = 1 THEN "B" ELSE "C"

\* castVote requests of two voters on one question: the requests of one voter
\* follow each other, those of different voters overlap; outcomes recorded
ScoreArrive(p) ==
  /\ calls < MaxScoreCalls
  /\ \E d \in VOTE_TYPES :
       Begin(p, TRUE, "castVote", VoterOf(p), "t1", "question", d)

ScoreNext == \E p \in {1, 2} : ScoreArrive(p) \/ CastStep(p)

ScoreSpec == Init /\ [][ScoreNext]_vars

\* castVote and removeVote requests on one question handled one after the
\* other by one handler, outcomes recorded
SeqRemoveArrive(p) ==
  /\ AllIdle
  /\ calls < MaxSeqRemoveCalls
  /\ \E v \in Users \ {"A"} :
       \/ \E d \in VOTE_TYPES : Begin(p, TRUE, "castVote", v, "t1", "question", d)
       \/ Begin(p, TRUE, "removeVote", v, "t1", "question", UPVOTE)

SeqRemoveNext == SeqRemoveArrive(1) \/ CastStep(1) \/ RemoveStep(1)

SeqRemoveSpec == Init /\ [][SeqRemoveNext]_vars

\* finitely many castVote requests of one voter on one question overlapping
\* in two handlers; the event loop runs every handler that can take a step
LiveArrive(p) ==
  /\ calls < MaxLiveCalls
  /\ \E d \in VOTE_TYPES : Begin(p, FALSE, "castVote", "B", "t1", "question", d)

LiveNext == \E p \in {1, 2} : LiveArrive(p) \/ CastStep(p)

LiveSpec ==
  /\ Init
  /\ [][LiveNext]_vars
  /\ \A p \in {1, 2} : WF_vars(CastStep(p))

(* ------------------------- forum requests ------------------------------- *)
\* a request for an answer, question or tag handler arrives
FBegin(p, op, pc0, u, target, ip, id) ==
  /\ req[p].pc \in {"idle", "done"}
  /\ calls' = calls + 1
  /\ req' = [req EXCEPT ![p] =
       [ReqIdle EXCEPT !.pc = pc0, !.op = op, !.user = u, !.target = target,
                       !.ip = ip, !.tagId = id,
                       !.preRep = IF target \in AnswerDocs
                                    THEN reputation[AnswerAuthor(target)]
                                    ELSE 0]]
  /\ UNCHANGED voteVars
  /\ UNCHANGED <<isAccepted, acceptedAnswer, viewHistory, views, now, tags>>
  /\ UNCHANGED qaVars

\* the response is sent
FFinish(p, result) ==
  req' = [req EXCEPT ![p].pc = "done", ![p].result = result,
                     ![p].loaded = "none", ![p].oldTags = {},
                     ![p].wasAccepted = FALSE]

\* Answer.findOne({_id, isDeleted: false}) finds a stored answer of question t1
AnswerFound(a) == a \in AnswerDocs /\ ~isDeleted[a]

(* ------------------------- acceptAnswer --------------------------------- *)
\* variant: an administrator passing the check as well
IsQuestionAuthor_orAdmin(author, user) == author = user \/ Role(user) = "admin"

\* answer.question.author.toString() === req.user._id.toString()
IsQuestionAuthor(author, user) == author = user

\* Answer.findOne({_id, isDeleted: false}).populate('question') and the checks
\* made on the loaded answer
AaFindOne(p) ==
  /\ req[p].pc = "aa_findOne"
  /\ UNCHANGED voteVars
  /\ UNCHANGED <<calls, isAccepted, acceptedAnswer, viewHistory, views, now, tags>>
  /\ UNCHANGED qaVars
  /\ IF ~AnswerFound(req[p].target)
       THEN FFinish(p, "404")
       ELSE IF ~IsQuestionAuthor(Author("t1"), req[p].user)
         THEN FFinish(p, "403")
         ELSE IF isAccepted[req[p].target]
           THEN FFinish(p, "400")
           ELSE req' = [req EXCEPT ![p].pc = "aa_updateMany"]

\* Answer.updateMany({question}, {isAccepted: false})
AaUpdateMany(p) ==
  /\ req[p].pc = "aa_updateMany"
  /\ isAccepted' = [a \in AnswerDocs |-> FALSE]
  /\ req' = [req EXCEPT ![p].pc = "aa_save"]
  /\ UNCHANGED voteVars
  /\ UNCHANGED <<calls, acceptedAnswer, viewHistory, views, now, tags>>
  /\ UNCHANGED qaVars

\* answer.isAccepted = true; answer.save()
AaSave(p) ==
  /\ req[p].pc = "aa_save"
  /\ isAccepted' = [isAccepted EXCEPT ![req[p].target] = TRUE]
  /\ req' = [req EXCEPT ![p].pc = "aa_postQuestion"]
  /\ UNCHANGED voteVars
  /\ UNCHANGED <<calls, acceptedAnswer, viewHistory, views, now, tags>>
  /\ UNCHANGED qaVars

\* post('save') of an accepted answer: the question's acceptedAnswer
AaPostQuestion(p) ==
  /\ req[p].pc = "aa_postQuestion"
  /\ acceptedAnswer' = req[p].target
  /\ req' = [req EXCEPT ![p].pc = "aa_postUnmark"]
  /\ UNCHANGED voteVars
  /\ UNCHANGED <<calls, isAccepted, viewHistory, views, now, tags>>
  /\ UNCHANGED qaVars

\* post('save') of an accepted answer: the other answers are unmarked
AaPostUnmark(p) ==
  /\ req[p].pc = "aa_postUnmark"
  /\ isAccepted' = [a \in AnswerDocs |->
                      IF a # req[p].target THEN FALSE ELSE isAccepted[a]]
  /\ req' = [req EXCEPT ![p].pc = "aa_updateQuestion"]
  /\ UNCHANGED voteVars
  /\ UNCHANGED <<calls, acceptedAnswer, viewHistory, views, now, tags>>
  /\ UNCHANGED qaVars

\* Question.findByIdAndUpdate(acceptedAnswer: answer._id)
AaUpdateQuestion(p) ==
  /\ req[p].pc = "aa_updateQuestion"
  /\ acceptedAnswer' = req[p].target
  /\ IF AnswerAuthor(req[p].target) # req[p].user
       THEN req' = [req EXCEPT ![p].pc = "aa_notify"]
       ELSE FFinish(p, "200")
  /\ UNCHANGED voteVars
  /\ UNCHANGED <<calls, isAccepted, viewHistory, views, now, tags>>
  /\ UNCHANGED qaVars

\* notificationService.createNotification resolves or throws; the handler
\* answers 200 or, from its catch block, 500
AaNotify(p) ==
  /\ req[p].pc = "aa_notify"
  /\ \E created \in BOOLEAN : FFinish(p, IF created THEN "200" ELSE "500")
  /\ UNCHANGED voteVars
  /\ UNCHANGED <<calls, isAccepted, acceptedAnswer, viewHistory, views, now, tags>>
  /\ UNCHANGED qaVars

(* ------------------------- unacceptAnswer ------------------------------- *)
\* Answer.findOne({_id, isDeleted: false}).populate('question') and the checks
UaFindOne(p) ==
  /\ req[p].pc = "ua_findOne"
  /\ UNCHANGED voteVars
  /\ UNCHANGED <<calls, isAccepted, acceptedAnswer, viewHistory, views, now, tags>>
  /\ UNCHANGED qaVars
  /\ IF ~AnswerFound(req[p].target)
       THEN FFinish(p, "404")
       ELSE IF ~IsQuestionAuthor(Author("t1"), req[p].user)
         THEN FFinish(p, "403")
         ELSE IF ~isAccepted[req[p].target]
           THEN FFinish(p, "400")
           ELSE req' = [req EXCEPT ![p].pc = "ua_save"]

\* answer.isAccepted = false; answer.save()
UaSave(p) ==
  /\ req[p].pc = "ua_save"
  /\ isAccepted' = [isAccepted EXCEPT ![req[p].target] = FALSE]
  /\ req' = [req EXCEPT ![p].pc = "ua_updateQuestion"]
  /\ UNCHANGED voteVars
  /\ UNCHANGED <<calls, acceptedAnswer, viewHistory, views, now, tags>>
  /\ UNCHANGED qaVars

\* Question.findByIdAndUpdate(acceptedAnswer: null)
UaUpdateQuestion(p) ==
  /\ req[p].pc = "ua_updateQuestion"
  /\ acceptedAnswer' = "null"
  /\ FFinish(p, "200")
  /\ UNCHANGED voteVars
  /\ UNCHANGED <<calls, isAccepted, viewHistory, views, now, tags>>
  /\ UNCHANGED qaVars

\* acceptAnswer and unacceptAnswer requests of any user on any answer id
AcceptArrive(p) ==
  /\ calls < MaxAcceptCalls
  /\ \E u \in Users, a \in AnswerDocs \cup {MissingAnswer} :
       \/ FBegin(p, "acceptAnswer", "aa_findOne", u, a, "none", 0)
       \/ FBegin(p, "unacceptAnswer", "ua_findOne", u, a, "none", 0)

AcceptStep(p) ==
  \/ AaFindOne(p)
  \/ AaUpdateMany(p)
  \/ AaSave(p)
  \/ AaPostQuestion(p)
  \/ AaPostUnmark(p)
  \/ AaUpdateQuestion(p)
  \/ AaNotify(p)
  \/ UaFindOne(p)
  \/ UaSave(p)
  \/ UaUpdateQuestion(p)

\* two handlers of accept and unaccept requests overlapping
AcceptNext == \E p \in {1, 2} : AcceptArrive(p) \/ AcceptStep(p)

AcceptSpec == Init /\ [][AcceptNext]_vars

(* ------------------------- getQuestionById / recordView ----------------- *)
\* the filter of recordView: rows of this question seen since oneHourAgo by
\* this user, or by this address without a user
RecentViews(rows, q, u, ip, t) ==
  {i \in 1 .. Len(rows) :
     /\ rows[i].question = q
     /\ rows[i].viewedAt >= t - oneHour
     /\ IF u # "null"
          THEN rows[i].user = u
          ELSE rows[i].ipAddress = ip /\ rows[i].user = "null"}

\* Question.findById; a missing question is answered 404 with no view recorded
GqFindQuestion(p) ==
  /\ req[p].pc = "gq_findQuestion"
  /\ IF req[p].target \notin Questions
       THEN FFinish(p, "404")
       ELSE req' = [req EXCEPT ![p].pc = "rv_findOne"]
  /\ UNCHANGED voteVars
  /\ UNCHANGED <<calls, isAccepted, acceptedAnswer, viewHistory, views, now, tags>>
  /\ UNCHANGED qaVars

\* recordView: this.findOne(query); a recent view ends the recording
RecordViewFindOne(p) ==
  /\ req[p].pc = "rv_findOne"
  /\ IF RecentViews(viewHistory, req[p].target, req[p].user, req[p].ip, now) # {}
       THEN FFinish(p, "200")
       ELSE req' = [req EXCEPT ![p].pc = "rv_create"]
  /\ UNCHANGED voteVars
  /\ UNCHANGED <<calls, isAccepted, acceptedAnswer, viewHistory, views, now, tags>>
  /\ UNCHANGED qaVars

\* recordView: this.create({... viewedAt: new Date()})
RecordViewCreate(p) ==
  /\ req[p].pc = "rv_create"
  /\ viewHistory' = Append(viewHistory,
       [user |-> req[p].user, question |-> req[p].target,
        ipAddress |-> req[p].ip, viewedAt |-> now])
  /\ req' = [req EXCEPT ![p].pc = "rv_incViews"]
  /\ UNCHANGED voteVars
  /\ UNCHANGED <<calls, isAccepted, acceptedAnswer, views, now, tags>>
  /\ UNCHANGED qaVars

\* recordView: Question.findByIdAndUpdate($inc views), then the response
RecordViewIncViews(p) ==
  /\ req[p].pc = "rv_incViews"
  /\ views' = views + 1
  /\ FFinish(p, "200")
  /\ UNCHANGED voteVars
  /\ UNCHANGED <<calls, isAccepted, acceptedAnswer, viewHistory, now, tags>>
  /\ UNCHANGED qaVars

\* time passes
Tick ==
  /\ now < MaxTime * HalfHour
  /\ now' = now + HalfHour
  /\ UNCHANGED voteVars
  /\ UNCHANGED <<calls, isAccepted, acceptedAnswer, viewHistory, views, tags, req>>
  /\ UNCHANGED qaVars

\* getQuestionById requests of a logged-in user or of an address
ViewArrive(p) ==
  /\ calls < MaxViewCalls
  /\ \E w \in Viewers, q \in Questions \cup {MissingQuestion} :
       FBegin(p, "getQuestionById", "gq_findQuestion", w[1], q, w[2], 0)

ViewStep(p) ==
  \/ GqFindQuestion(p)
  \/ RecordViewFindOne(p)
  \/ RecordViewCreate(p)
  \/ RecordViewIncViews(p)

\* two handlers of getQuestionById overlapping while time passes
ViewNext == Tick \/ \E p \in {1, 2} : ViewArrive(p) \/ ViewStep(p)

ViewSpec == Init /\ [][ViewNext]_vars

(* ------------------------- tags ----------------------------------------- *)
\* the tag documents with this _id (none or one)
TagsById(ts, id) == {t \in ts : t.id = id}

\* the tag documents with this name
TagsByName(ts, name) == {t \in ts : t.name = name}

\* pre('save') of a new tag: creator && creator.role === 'admin'
AutoApproved(role) == role = "admin"

\* variant: any role passing the admin check
IsAdmin_anyRole(role) == TRUE

\* req.user.role !== 'admin' answers 403 Admin access required
IsAdmin(role) == role = "admin"

\* createTag: Tag.findOne({name}); an existing tag answers 409
CtFindOne(p) ==
  /\ req[p].pc = "ct_findOne"
  /\ IF TagsByName(tags, req[p].target) # {}
       THEN FFinish(p, "409")
       ELSE req' = [req EXCEPT ![p].pc = "ct_preSave"]
  /\ UNCHANGED voteVars
  /\ UNCHANGED <<calls, isAccepted, acceptedAnswer, viewHistory, views, now, tags>>
  /\ UNCHANGED qaVars

\* Tag.create: pre('save') loads the creator with User.findById
CtPreSave(p) ==
  /\ req[p].pc = "ct_preSave"
  /\ req' = [req EXCEPT ![p].pc = "ct_insert", ![p].loaded = Role(req[p].user)]
  /\ UNCHANGED voteVars
  /\ UNCHANGED <<calls, isAccepted, acceptedAnswer, viewHistory, views, now, tags>>
  /\ UNCHANGED qaVars

\* Tag.create: the insert; the unique index on name refuses a second tag of
\* the name and the handler answers 500 from its catch block
CtInsert(p) ==
  /\ req[p].pc = "ct_insert"
  /\ IF TagsByName(tags, req[p].target) # {}
       THEN /\ FFinish(p, "500")
            /\ UNCHANGED tags
       ELSE /\ tags' = tags \cup
                 {[id |-> req[p].tagId, name |-> req[p].target,
                   createdBy |-> req[p].user,
                   isApproved |-> AutoApproved(req[p].loaded),
                   approvedBy |-> IF AutoApproved(req[p].loaded)
                                    THEN req[p].user ELSE "null"]}
            /\ FFinish(p, "201")
  /\ UNCHANGED voteVars
  /\ UNCHANGED <<calls, isAccepted, acceptedAnswer, viewHistory, views, now>>
  /\ UNCHANGED qaVars

\* approveTag: the admin check, Tag.findById and the checks on the tag
AtFindById(p) ==
  /\ req[p].pc = "at_findById"
  /\ IF ~IsAdmin(Role(req[p].user))
       THEN FFinish(p, "403")
       ELSE IF TagsById(tags, req[p].tagId) = {}
         THEN FFinish(p, "404")
         ELSE IF \E t \in TagsById(tags, req[p].tagId) : t.isApproved
           THEN FFinish(p, "400")
           ELSE req' = [req EXCEPT ![p].pc = "at_save"]
  /\ UNCHANGED voteVars
  /\ UNCHANGED <<calls, isAccepted, acceptedAnswer, viewHistory, views, now, tags>>
  /\ UNCHANGED qaVars

\* approveTag: tag.isApproved = true; tag.approvedBy = req.user._id;
\* tag.save(), which fails when the document is gone
AtSave(p) ==
  /\ req[p].pc = "at_save"
  /\ IF TagsById(tags, req[p].tagId) = {}
       THEN /\ FFinish(p, "500")
            /\ UNCHANGED tags
       ELSE /\ tags' = {IF t.id = req[p].tagId
                          THEN [t EXCEPT !.isApproved = TRUE,
                                         !.approvedBy = req[p].user]
                          ELSE t : t \in tags}
            /\ FFinish(p, "200")
  /\ UNCHANGED voteVars
  /\ UNCHANGED <<calls, isAccepted, acceptedAnswer, viewHistory, views, now>>
  /\ UNCHANGED qaVars

\* deleteTag: the admin check and Tag.findById
DtFindById(p) ==
  /\ req[p].pc = "dt_findById"
  /\ IF ~IsAdmin(Role(req[p].user))
       THEN FFinish(p, "403")
       ELSE IF TagsById(tags, req[p].tagId) = {}
         THEN FFinish(p, "404")
         ELSE req' = [req EXCEPT ![p].pc = "dt_delete"]
  /\ UNCHANGED voteVars
  /\ UNCHANGED <<calls, isAccepted, acceptedAnswer, viewHistory, views, now, tags>>
  /\ UNCHANGED qaVars

\* deleteTag: Tag.findByIdAndDelete
DtDelete(p) ==
  /\ req[p].pc = "dt_delete"
  /\ tags' = tags \ TagsById(tags, req[p].tagId)
  /\ FFinish(p, "200")
  /\ UNCHANGED voteVars
  /\ UNCHANGED <<calls, isAccepted, acceptedAnswer, viewHistory, views, now>>
  /\ UNCHANGED qaVars

\* createTag, approveTag and deleteTag requests of any user, naming a stored
\* tag or a missing one
TagArrive(p) ==
  /\ calls < MaxTagCalls
  /\ \E u \in Users :
       \/ \E n \in TagNames :
            FBegin(p, "createTag", "ct_findOne", u, n, "none", calls + 1)
       \/ \E id \in {t.id : t \in tags} \cup {MissingTag} :
            \/ FBegin(p, "approveTag", "at_findById", u, "none", "none", id)
            \/ FBegin(p, "deleteTag", "dt_findById", u, "none", "none", id)

TagStep(p) ==
  \/ CtFindOne(p)
  \/ CtPreSave(p)
  \/ CtInsert(p)
  \/ AtFindById(p)
  \/ AtSave(p)
  \/ DtFindById(p)
  \/ DtDelete(p)

\* two handlers of tag requests overlapping
TagNext == \E p \in {1, 2} : TagArrive(p) \/ TagStep(p)

\* tags do not depend on reputation: every user starts with the default 0
TagInit == Init /\ reputation = [u \in Users |-> 0]

TagSpec == TagInit /\ [][TagNext]_vars

(* ------------------------- question and answer requests ----------------- *)
\* a request naming a question, an answer created during the run (docId) or
\* a tag list arrives
QBegin(p, op, pc0, u, target, id, tl) ==
  /\ req[p].pc \in {"idle", "done"}
  /\ calls' = calls + 1
  /\ req' = [req EXCEPT ![p] =
       [ReqIdle EXCEPT !.pc = pc0, !.op = op, !.user = u, !.target = target,
                       !.docId = id, !.tagList = tl]]
  /\ UNCHANGED voteVars
  /\ UNCHANGED <<isAccepted, acceptedAnswer, viewHistory, views, now, tags>>
  /\ UNCHANGED qaVars

\* the question documents with this _id (none or one)
QuestionsById(qs, id) == {q \in qs : q.id = id}

\* variant: a deleted question found like any other
QuestionFound_deletedToo(qs, id) == QuestionsById(qs, id) # {}

\* !question || question.status === 'deleted' answers 404
QuestionFound(qs, id) == \E q \in QuestionsById(qs, id) : q.status # DELETED

\* the stored question with this _id
QuestionDoc(qs, id) == CHOOSE q \in QuestionsById(qs, id) : TRUE

\* the update names answersCount, a path questionSchema does not have (the
\* counter is answerCount): answerCount keeps its value
IncAnswersCount(count, d) == count

\* the answers of question t1 that are not deleted
LiveAnswers ==
  Cardinality({a \in AnswerDocs : ~isDeleted[a]})
    + Cardinality({n \in newAnswers : ~n.isDeleted})

(* ------------------------- createAnswer --------------------------------- *)
\* variant: the closed check left out
CreateAnswerCheck_noClosedCheck(qs, id, user) ==
  IF ~QuestionFound(qs, id) THEN "404"
  ELSE IF QuestionDoc(qs, id).author = user THEN "400"
  ELSE "ok"

\* the checks of createAnswer on the loaded question
CreateAnswerCheck(qs, id, user) ==
  IF ~QuestionFound(qs, id) THEN "404"
  ELSE IF QuestionDoc(qs, id).status = CLOSED THEN "400"
  ELSE IF QuestionDoc(qs, id).author = user THEN "400"
  ELSE "ok"

\* Question.findById and the checks
CaFindQuestion(p) ==
  /\ req[p].pc = "ca_findQuestion"
  /\ LET c == CreateAnswerCheck(questions, req[p].target, req[p].user)
     IN IF c = "ok"
          THEN req' = [req EXCEPT ![p].pc = "ca_preSave"]
          ELSE FFinish(p, c)
  /\ UNCHANGED voteVars
  /\ UNCHANGED <<calls, isAccepted, acceptedAnswer, viewHistory, views, now, tags>>
  /\ UNCHANGED qaVars

\* Answer.create: pre('save') of the new answer, $inc answerCount
CaPreSave(p) ==
  /\ req[p].pc = "ca_preSave"
  /\ answerCount' = answerCount + 1
  /\ req' = [req EXCEPT ![p].pc = "ca_insert"]
  /\ UNCHANGED voteVars
  /\ UNCHANGED <<calls, isAccepted, acceptedAnswer, viewHistory, views, now, tags>>
  /\ UNCHANGED <<isDeleted, newAnswers, questions, usageCount>>

\* Answer.create: the insert
CaInsert(p) ==
  /\ req[p].pc = "ca_insert"
  /\ newAnswers' = newAnswers \cup
       {[id |-> req[p].docId, author |-> req[p].user, isDeleted |-> FALSE]}
  /\ req' = [req EXCEPT ![p].pc = "ca_incCount"]
  /\ UNCHANGED voteVars
  /\ UNCHANGED <<calls, isAccepted, acceptedAnswer, viewHistory, views, now, tags>>
  /\ UNCHANGED <<isDeleted, answerCount, questions, usageCount>>

\* Question.findByIdAndUpdate($inc answersCount: 1)
CaIncCount(p) ==
  /\ req[p].pc = "ca_incCount"
  /\ answerCount' = IncAnswersCount(answerCount, 1)
  /\ req' = [req EXCEPT ![p].pc = "ca_notify"]
  /\ UNCHANGED voteVars
  /\ UNCHANGED <<calls, isAccepted, acceptedAnswer, viewHistory, views, now, tags>>
  /\ UNCHANGED <<isDeleted, newAnswers, questions, usageCount>>

\* notificationService.createNotification resolves or throws; 201 or 500
CaNotify(p) ==
  /\ req[p].pc = "ca_notify"
  /\ \E created \in BOOLEAN : FFinish(p, IF created THEN "201" ELSE "500")
  /\ UNCHANGED voteVars
  /\ UNCHANGED <<calls, isAccepted, acceptedAnswer, viewHistory, views, now, tags>>
  /\ UNCHANGED qaVars

(* ------------------------- deleteAnswer --------------------------------- *)
\* answer.author equals req.user._id, or req.user.role is admin
AuthorOrAdmin(author, user) == author = user \/ Role(user) = "admin"

\* Answer.findOne({_id, isDeleted: false}) and the authorisation check, for
\* an answer stored before the run (target) or created during it (docId)
DaFindOne(p) ==
  /\ req[p].pc = "da_findOne"
  /\ IF req[p].docId = 0
       THEN IF ~AnswerFound(req[p].target)
              THEN FFinish(p, "404")
              ELSE IF ~AuthorOrAdmin(AnswerAuthor(req[p].target), req[p].user)
                THEN FFinish(p, "403")
                ELSE req' = [req EXCEPT ![p].pc = "da_save",
                               ![p].wasAccepted = isAccepted[req[p].target]]
       ELSE IF ~\E n \in newAnswers : n.id = req[p].docId /\ ~n.isDeleted
              THEN FFinish(p, "404")
              ELSE IF ~\E n \in newAnswers :
                         n.id = req[p].docId /\ AuthorOrAdmin(n.author, req[p].user)
                THEN FFinish(p, "403")
                ELSE req' = [req EXCEPT ![p].pc = "da_save"]
  /\ UNCHANGED voteVars
  /\ UNCHANGED <<calls, isAccepted, acceptedAnswer, viewHistory, views, now, tags>>
  /\ UNCHANGED qaVars

\* answer.isDeleted = true; answer.save()
DaSave(p) ==
  /\ req[p].pc = "da_save"
  /\ IF req[p].docId = 0
       THEN /\ isDeleted' = [isDeleted EXCEPT ![req[p].target] = TRUE]
            /\ UNCHANGED newAnswers
       ELSE /\ newAnswers' = {IF n.id = req[p].docId
                                THEN [n EXCEPT !.isDeleted = TRUE]
                                ELSE n : n \in newAnswers}
            /\ UNCHANGED isDeleted
  /\ req' = [req EXCEPT ![p].pc = IF req[p].wasAccepted
                                    THEN "da_postQuestion" ELSE "da_decCount"]
  /\ UNCHANGED voteVars
  /\ UNCHANGED <<calls, isAccepted, acceptedAnswer, viewHistory, views, now, tags>>
  /\ UNCHANGED <<answerCount, questions, usageCount>>

\* post('save') of the saved answer, whose isAccepted is still true: the
\* question's acceptedAnswer
DaPostQuestion(p) ==
  /\ req[p].pc = "da_postQuestion"
  /\ acceptedAnswer' = req[p].target
  /\ req' = [req EXCEPT ![p].pc = "da_postUnmark"]
  /\ UNCHANGED voteVars
  /\ UNCHANGED <<calls, isAccepted, viewHistory, views, now, tags>>
  /\ UNCHANGED qaVars

\* post('save') of the saved answer: the other answers are unmarked
DaPostUnmark(p) ==
  /\ req[p].pc = "da_postUnmark"
  /\ isAccepted' = [a \in AnswerDocs |->
                      IF a # req[p].target THEN FALSE ELSE isAccepted[a]]
  /\ req' = [req EXCEPT ![p].pc = "da_decCount"]
  /\ UNCHANGED voteVars
  /\ UNCHANGED <<calls, acceptedAnswer, viewHistory, views, now, tags>>
  /\ UNCHANGED qaVars

\* Question.findByIdAndUpdate($inc answersCount: -1)
DaDecCount(p) ==
  /\ req[p].pc = "da_decCount"
  /\ answerCount' = IncAnswersCount(answerCount, 0 - 1)
  /\ IF req[p].wasAccepted
       THEN req' = [req EXCEPT ![p].pc = "da_clearAccepted"]
       ELSE FFinish(p, "200")
  /\ UNCHANGED voteVars
  /\ UNCHANGED <<calls, isAccepted, acceptedAnswer, viewHistory, views, now, tags>>
  /\ UNCHANGED <<isDeleted, newAnswers, questions, usageCount>>

\* if (answer.isAccepted) Question.findByIdAndUpdate(acceptedAnswer: null)
DaClearAccepted(p) ==
  /\ req[p].pc = "da_clearAccepted"
  /\ acceptedAnswer' = "null"
  /\ FFinish(p, "200")
  /\ UNCHANGED voteVars
  /\ UNCHANGED <<calls, isAccepted, viewHistory, views, now, tags>>
  /\ UNCHANGED qaVars

DeleteAnswerStep(p) ==
  \/ DaFindOne(p)
  \/ DaSave(p)
  \/ DaPostQuestion(p)
  \/ DaPostUnmark(p)
  \/ DaDecCount(p)
  \/ DaClearAccepted(p)

CreateAnswerStep(p) ==
  \/ CaFindQuestion(p)
  \/ CaPreSave(p)
  \/ CaInsert(p)
  \/ CaIncCount(p)
  \/ CaNotify(p)

(* ------------------------- closeQuestion -------------------------------- *)
\* question.save() after status and closedBy were assigned
SaveStatus(qs, id, st, by) ==
  {IF q.id = id THEN [q EXCEPT !.status = st, !.closedBy = by] ELSE q : q \in qs}

\* the role check, Question.findById and the checks on the loaded question
ClFindById(p) ==
  /\ req[p].pc = "cl_findById"
  /\ IF ~IsAdmin(Role(req[p].user))
       THEN FFinish(p, "403")
       ELSE IF ~QuestionFound(questions, req[p].target)
         THEN FFinish(p, "404")
         ELSE IF QuestionDoc(questions, req[p].target).status = CLOSED
           THEN FFinish(p, "400")
           ELSE req' = [req EXCEPT ![p].pc = "cl_save"]
  /\ UNCHANGED voteVars
  /\ UNCHANGED <<calls, isAccepted, acceptedAnswer, viewHistory, views, now, tags>>
  /\ UNCHANGED qaVars

\* question.status = 'closed'; question.closedBy = req.user._id; save()
ClSave(p) ==
  /\ req[p].pc = "cl_save"
  /\ questions' = SaveStatus(questions, req[p].target, CLOSED, req[p].user)
  /\ FFinish(p, "200")
  /\ UNCHANGED voteVars
  /\ UNCHANGED <<calls, isAccepted, acceptedAnswer, viewHistory, views, now, tags>>
  /\ UNCHANGED <<isDeleted, newAnswers, answerCount, usageCount>>

(* ------------------------- reopenQuestion ------------------------------- *)
\* the status reopenQuestion tests for and assigns
ReopenedStatus == "open"

\* the enum validator of questionSchema.status, run by save()
ValidStatus(s) == s \in QUESTION_STATUS

\* the role check, Question.findById and the checks on the loaded question
RoFindById(p) ==
  /\ req[p].pc = "ro_findById"
  /\ IF ~IsAdmin(Role(req[p].user))
       THEN FFinish(p, "403")
       ELSE IF ~QuestionFound(questions, req[p].target)
         THEN FFinish(p, "404")
         ELSE IF QuestionDoc(questions, req[p].target).status = ReopenedStatus
           THEN FFinish(p, "400")
           ELSE req' = [req EXCEPT ![p].pc = "ro_save"]
  /\ UNCHANGED voteVars
  /\ UNCHANGED <<calls, isAccepted, acceptedAnswer, viewHistory, views, now, tags>>
  /\ UNCHANGED qaVars

\* question.status = 'open'; question.closedBy = null; save(): a status the
\* validator refuses is not stored and the catch block answers 500
RoSave(p) ==
  /\ req[p].pc = "ro_save"
  /\ IF ValidStatus(ReopenedStatus)
       THEN /\ questions' = SaveStatus(questions, req[p].target,
                                       ReopenedStatus, "null")
            /\ FFinish(p, "200")
       ELSE /\ UNCHANGED questions
            /\ FFinish(p, "500")
  /\ UNCHANGED voteVars
  /\ UNCHANGED <<calls, isAccepted, acceptedAnswer, viewHistory, views, now, tags>>
  /\ UNCHANGED <<isDeleted, newAnswers, answerCount, usageCount>>

(* ------------------------- tag usage counts ----------------------------- *)
\* Tag.find({_id: {$in: tags}}) returns as many tags as the list names
TagsExist(tl) == tl \subseteq QTags

\* Tag.updateMany({_id: {$in: tl}}, {$inc: {usageCount: d}})
IncUsage(uc, tl, d) == [g \in QTags |-> IF g \in tl THEN uc[g] + d ELSE uc[g]]

(* ------------------------- deleteQuestion ------------------------------- *)
\* Question.findById and the checks; the loaded document keeps its tags
DqFindById(p) ==
  /\ req[p].pc = "dq_findById"
  /\ IF ~QuestionFound(questions, req[p].target)
       THEN FFinish(p, "404")
       ELSE IF ~AuthorOrAdmin(QuestionDoc(questions, req[p].target).author,
                              req[p].user)
         THEN FFinish(p, "403")
         ELSE req' = [req EXCEPT ![p].pc = "dq_save",
                        ![p].oldTags = QuestionDoc(questions, req[p].target).tags]
  /\ UNCHANGED voteVars
  /\ UNCHANGED <<calls, isAccepted, acceptedAnswer, viewHistory, views, now, tags>>
  /\ UNCHANGED qaVars

\* question.status = 'deleted'; save()
DqSave(p) ==
  /\ req[p].pc = "dq_save"
  /\ questions' = {IF q.id = req[p].target THEN [q EXCEPT !.status = DELETED]
                                           ELSE q : q \in questions}
  /\ req' = [req EXCEPT ![p].pc = "dq_decTags"]
  /\ UNCHANGED voteVars
  /\ UNCHANGED <<calls, isAccepted, acceptedAnswer, viewHistory, views, now, tags>>
  /\ UNCHANGED <<isDeleted, newAnswers, answerCount, usageCount>>

\* Tag.updateMany on the loaded question.tags, usageCount - 1
DqDecTags(p) ==
  /\ req[p].pc = "dq_decTags"
  /\ usageCount' = IncUsage(usageCount, req[p].oldTags, 0 - 1)
  /\ FFinish(p, "200")
  /\ UNCHANGED voteVars
  /\ UNCHANGED <<calls, isAccepted, acceptedAnswer, viewHistory, views, now, tags>>
  /\ UNCHANGED <<isDeleted, newAnswers, answerCount, questions>>

(* ------------------------- updateQuestion ------------------------------- *)
\* Question.findById and the checks; the loaded document keeps its tags
UqFindById(p) ==
  /\ req[p].pc = "uq_findById"
  /\ IF ~QuestionFound(questions, req[p].target)
       THEN FFinish(p, "404")
       ELSE IF ~AuthorOrAdmin(QuestionDoc(questions, req[p].target).author,
                              req[p].user)
         THEN FFinish(p, "403")
         ELSE req' = [req EXCEPT ![p].pc = "uq_findTags",
                        ![p].oldTags = QuestionDoc(questions, req[p].target).tags]
  /\ UNCHANGED voteVars
  /\ UNCHANGED <<calls, isAccepted, acceptedAnswer, viewHistory, views, now, tags>>
  /\ UNCHANGED qaVars

\* Tag.find on the new tag list
UqFindTags(p) ==
  /\ req[p].pc = "uq_findTags"
  /\ IF ~TagsExist(req[p].tagList)
       THEN FFinish(p, "400")
       ELSE req' = [req EXCEPT ![p].pc = "uq_decOld"]
  /\ UNCHANGED voteVars
  /\ UNCHANGED <<calls, isAccepted, acceptedAnswer, viewHistory, views, now, tags>>
  /\ UNCHANGED qaVars

\* Tag.updateMany on the loaded question.tags, usageCount - 1
UqDecOld(p) ==
  /\ req[p].pc = "uq_decOld"
  /\ usageCount' = IncUsage(usageCount, req[p].oldTags, 0 - 1)
  /\ req' = [req EXCEPT ![p].pc = "uq_incNew"]
  /\ UNCHANGED voteVars
  /\ UNCHANGED <<calls, isAccepted, acceptedAnswer, viewHistory, views, now, tags>>
  /\ UNCHANGED <<isDeleted, newAnswers, answerCount, questions>>

\* Tag.updateMany on the new tag list, usageCount + 1
UqIncNew(p) ==
  /\ req[p].pc = "uq_incNew"
  /\ usageCount' = IncUsage(usageCount, req[p].tagList, 1)
  /\ req' = [req EXCEPT ![p].pc = "uq_update"]
  /\ UNCHANGED voteVars
  /\ UNCHANGED <<calls, isAccepted, acceptedAnswer, viewHistory, views, now, tags>>
  /\ UNCHANGED <<isDeleted, newAnswers, answerCount, questions>>

\* Question.findByIdAndUpdate(id, {tags})
UqUpdate(p) ==
  /\ req[p].pc = "uq_update"
  /\ questions' = {IF q.id = req[p].target THEN [q EXCEPT !.tags = req[p].tagList]
                                           ELSE q : q \in questions}
  /\ FFinish(p, "200")
  /\ UNCHANGED voteVars
  /\ UNCHANGED <<calls, isAccepted, acceptedAnswer, viewHistory, views, now, tags>>
  /\ UNCHANGED <<isDeleted, newAnswers, answerCount, usageCount>>

(* ------------------------- createQuestion ------------------------------- *)
\* Tag.find on the tag list
CqFindTags(p) ==
  /\ req[p].pc = "cq_findTags"
  /\ IF ~TagsExist(req[p].tagList)
       THEN FFinish(p, "400")
       ELSE req' = [req EXCEPT ![p].pc = "cq_create"]
  /\ UNCHANGED voteVars
  /\ UNCHANGED <<calls, isAccepted, acceptedAnswer, viewHistory, views, now, tags>>
  /\ UNCHANGED qaVars

\* Question.create({tags, author}): status and closedBy take their defaults
CqCreate(p) ==
  /\ req[p].pc = "cq_create"
  /\ questions' = questions \cup
       {[id |-> QuestionIdOf(req[p].docId), author |-> req[p].user,
         status |-> ACTIVE, closedBy |-> "null", tags |-> req[p].tagList]}
  /\ req' = [req EXCEPT ![p].pc = "cq_incTags"]
  /\ UNCHANGED voteVars
  /\ UNCHANGED <<calls, isAccepted, acceptedAnswer, viewHistory, views, now, tags>>
  /\ UNCHANGED <<isDeleted, newAnswers, answerCount, usageCount>>

\* Tag.updateMany on the tag list, usageCount + 1
CqIncTags(p) ==
  /\ req[p].pc = "cq_incTags"
  /\ usageCount' = IncUsage(usageCount, req[p].tagList, 1)
  /\ FFinish(p, "201")
  /\ UNCHANGED voteVars
  /\ UNCHANGED <<calls, isAccepted, acceptedAnswer, viewHistory, views, now, tags>>
  /\ UNCHANGED <<isDeleted, newAnswers, answerCount, questions>>

CloseReopenStep(p) ==
  \/ ClFindById(p)
  \/ ClSave(p)
  \/ RoFindById(p)
  \/ RoSave(p)

DeleteQuestionStep(p) ==
  \/ DqFindById(p)
  \/ DqSave(p)
  \/ DqDecTags(p)

UpdateQuestionStep(p) ==
  \/ UqFindById(p)
  \/ UqFindTags(p)
  \/ UqDecOld(p)
  \/ UqIncNew(p)
  \/ UqUpdate(p)

CreateQuestionStep(p) ==
  \/ CqFindTags(p)
  \/ CqCreate(p)
  \/ CqIncTags(p)

(* ------------------------- specifications of the forum handlers --------- *)
\* every user starts with reputation 0
QaInit == Init /\ reputation = [u \in Users |-> 0]

\* no handler of a forum request is between its first step and its response
ReqQuiet == \A p \in Procs : req[p].pc \in {"idle", "done"}

\* acceptAnswer, unacceptAnswer and deleteAnswer requests on the answers of t1
AcceptDeleteArrive(p) ==
  /\ calls < MaxAcceptDeleteCalls
  /\ \E u \in Users, a \in AnswerDocs :
       \/ FBegin(p, "acceptAnswer", "aa_findOne", u, a, "none", 0)
       \/ FBegin(p, "unacceptAnswer", "ua_findOne", u, a, "none", 0)
       \/ QBegin(p, "deleteAnswer", "da_findOne", u, a, 0, {})

\* two handlers of accept, unaccept and delete requests overlapping
AcceptDeleteNext ==
  \E p \in {1, 2} : AcceptDeleteArrive(p) \/ AcceptStep(p) \/ DeleteAnswerStep(p)

AcceptDeleteSpec == QaInit /\ [][AcceptDeleteNext]_vars

\* createAnswer, deleteAnswer, acceptAnswer and unacceptAnswer requests, one
\* at a time; a created answer has the number of its request as _id
AnswerSeqArrive(p) ==
  /\ ReqQuiet
  /\ calls < MaxAnswerSeqCalls
  /\ \/ \E u \in Users, t \in {"t1", MissingQuestion} :
          QBegin(p, "createAnswer", "ca_findQuestion", u, t, calls + 1, {})
     \/ \E u \in Users, a \in AnswerDocs \cup {MissingAnswer} :
          QBegin(p, "deleteAnswer", "da_findOne", u, a, 0, {})
     \/ \E u \in Users, n \in newAnswers :
          QBegin(p, "deleteAnswer", "da_findOne", u, "none", n.id, {})
     \/ \E a \in AnswerDocs :
          \/ FBegin(p, "acceptAnswer", "aa_findOne", Author("t1"), a, "none", 0)
          \/ FBegin(p, "unacceptAnswer", "ua_findOne", Author("t1"), a, "none", 0)

AnswerSeqNext ==
  \/ AnswerSeqArrive(1)
  \/ CreateAnswerStep(1)
  \/ DeleteAnswerStep(1)
  \/ AcceptStep(1)

AnswerSeqSpec == QaInit /\ [][AnswerSeqNext]_vars

\* createAnswer, closeQuestion, reopenQuestion, deleteQuestion and
\* updateQuestion requests on one question, one at a time
QuestionSeqArrive(p) ==
  /\ ReqQuiet
  /\ calls < MaxQuestionSeqCalls
  /\ \E u \in Users, t \in {"t1", MissingQuestion} :
       \/ QBegin(p, "createAnswer", "ca_findQuestion", u, t, calls + 1, {})
       \/ QBegin(p, "closeQuestion", "cl_findById", u, t, 0, {})
       \/ QBegin(p, "reopenQuestion", "ro_findById", u, t, 0, {})
       \/ QBegin(p, "deleteQuestion", "dq_findById", u, t, 0, {})
       \/ \E tl \in TagLists :
            QBegin(p, "updateQuestion", "uq_findById", u, t, 0, tl)

QuestionSeqNext ==
  \/ QuestionSeqArrive(1)
  \/ CreateAnswerStep(1)
  \/ CloseReopenStep(1)
  \/ DeleteQuestionStep(1)
  \/ UpdateQuestionStep(1)

QuestionSeqSpec == QaInit /\ [][QuestionSeqNext]_vars

\* createQuestion, updateQuestion and deleteQuestion requests overlapping; a
\* created question has QuestionIdOf the number of its request as _id
QuestionArrive(p) ==
  /\ calls < MaxQuestionCalls
  /\ \/ \E tl \in TagLists :
          QBegin(p, "createQuestion", "cq_findTags", "B", "none", calls + 1, tl)
     \/ \E u \in {"A", "B"}, q \in questions :
          \/ QBegin(p, "deleteQuestion", "dq_findById", u, q.id, 0, {})
          \/ \E tl \in TagLists :
               QBegin(p, "updateQuestion", "uq_findById", u, q.id, 0, tl)

QuestionNext ==
  \E p \in {1, 2} :
    \/ QuestionArrive(p)
    \/ CreateQuestionStep(p)
    \/ UpdateQuestionStep(p)
    \/ DeleteQuestionStep(p)

QuestionSpec == QaInit /\ [][QuestionNext]_vars

(* ------------------------- properties ----------------------------------- *)
SameKey(a, b) ==
  a.voter = b.voter /\ a.target = b.target /\ a.targetType = b.targetType

Succeeded(e) == e.result \in {"created", "updated", "removed"}

\* a recorded castVote by a voter other than the author on a stored target
Eligible(e) ==
  /\ e.op = "castVote"
  /\ TargetExists(e.target, e.targetType)
  /\ e.voter # Author(e.target)

UpRows(t) == {r \in votes : r.target = t /\ r.voteType = UPVOTE}
DownRows(t) == {r \in votes : r.target = t /\ r.voteType = DOWNVOTE}

\* C1: whatever castVote and removeVote requests overlap, the votes collection
\* never holds two rows with the same (voter, target, targetType).
C1_VoteUniqueness ==
  \A r1 \in votes, r2 \in votes : SameKey(r1, r2) => r1 = r2

\* C1 witness: an insert was refused by the unique index while a row is stored
C1_Witness ==
  \E p \in Procs : proc[p].retries >= 1 /\ proc[p].pc = "tv_findOne" /\ votes # {}

\* C2: between sequential castVote requests, each target's voteScore equals
\* its number of upvote rows minus its number of downvote rows.
C2_ScoreIsUpMinusDown ==
  AllIdle =>
    \A t \in TargetIds : voteScore[t] = Cardinality(UpRows(t)) - Cardinality(DownRows(t))

\* C2 witness: after a created, an updated and another created vote, a target
\* holds rows of two voters
C2_Witness ==
  /\ AllIdle
  /\ \E i \in 1 .. Len(hist) : hist[i].result = "updated"
  /\ \E t \in TargetIds : Cardinality(UpRows(t)) + Cardinality(DownRows(t)) = 2

\* C3: a castVote by the author of a stored target never gets past the
\* own-content check, is answered 400, and the row of its key, the target's
\* voteScore and the author's reputation are what they were before it.
C3_SelfVoteRejected ==
  /\ \A p \in Procs :
       (/\ proc[p].op = "castVote"
        /\ TargetExists(proc[p].target, proc[p].targetType)
        /\ proc[p].voter = Author(proc[p].target))
       => proc[p].pc = "cv_findTarget"
  /\ \A i \in 1 .. Len(hist) :
       (/\ hist[i].op = "castVote"
        /\ TargetExists(hist[i].target, hist[i].targetType)
        /\ hist[i].voter = Author(hist[i].target))
       => (hist[i].result = "400" /\ hist[i].post = hist[i].pre)

\* C3 witness: the author's vote on a target that already has a vote was
\* answered 400
C3_Witness ==
  /\ Len(hist) >= 2
  /\ hist[1].result = "created"
  /\ hist[2].voter = Author(hist[2].target)
  /\ hist[2].target = hist[1].target /\ hist[2].targetType = hist[1].targetType
  /\ hist[2].result = "400"
  /\ votes # {}

\* C4: from no row for (v, t, k), upvote followed by upvote leaves no row for
\* the key, and voteScore and the author's reputation as before the first call.
C4_ToggleUpTwice ==
  \A i \in 1 .. (Len(hist) - 1) :
    (/\ SameKey(hist[i], hist[i + 1])
     /\ hist[i].pre.row = NoVote
     /\ hist[i].voteType = UPVOTE /\ hist[i + 1].voteType = UPVOTE)
    => /\ hist[i + 1].post.row = NoVote
       /\ hist[i + 1].post.score = hist[i].pre.score
       /\ hist[i + 1].post.rep = hist[i].pre.rep

\* C4 witness: an upvote was created and then removed by its repetition
C4_Witness ==
  \E i \in 1 .. (Len(hist) - 1) :
    /\ SameKey(hist[i], hist[i + 1])
    /\ hist[i].voteType = UPVOTE /\ hist[i + 1].voteType = UPVOTE
    /\ hist[i].result = "created" /\ hist[i + 1].result = "removed"

\* C5: creating a vote of either direction and removing it by repeating the
\* request leaves the author's stored reputation at its value before the
\* creation, for every starting reputation.
C5_ReputationRestored ==
  \A i \in 1 .. (Len(hist) - 1) :
    (/\ SameKey(hist[i], hist[i + 1])
     /\ hist[i].voteType = hist[i + 1].voteType
     /\ hist[i].result = "created" /\ hist[i + 1].result = "removed")
    => hist[i + 1].post.rep = hist[i].pre.rep

\* the case of C6: the two latest completed calls are an upvote from no row
\* and a downvote of the same non-author voter on the same stored target
C6_Case ==
  /\ AllIdle
  /\ Len(hist) >= 2
  /\ Eligible(hist[Len(hist) - 1])
  /\ SameKey(hist[Len(hist) - 1], hist[Len(hist)])
  /\ hist[Len(hist)].op = "castVote"
  /\ hist[Len(hist) - 1].pre.row = NoVote
  /\ hist[Len(hist) - 1].voteType = UPVOTE
  /\ hist[Len(hist)].voteType = DOWNVOTE

C6_OneDownRow ==
  LET e == hist[Len(hist)]
      rows == FindVotes(votes, e.voter, e.target, e.targetType)
  IN Cardinality(rows) = 1 /\ \A r \in rows : r.voteType = DOWNVOTE

\* C6 (as stated): from no row for (v, t, k), upvote followed by downvote
\* leaves exactly one row for the key, with direction down, and voteScore 2
\* below its value before the first call.
C6_FlipUpDown ==
  C6_Case =>
    /\ C6_OneDownRow
    /\ voteScore[hist[Len(hist)].target] = hist[Len(hist) - 1].pre.score - 2

\* C6 (amended): from no row for (v, t, k), upvote followed by downvote leaves
\* exactly one row for the key, with direction down, and voteScore 1 below its
\* value before the first call, which is 2 below its value between the calls.
C6_FlipUpDownAmended ==
  C6_Case =>
    /\ C6_OneDownRow
    /\ voteScore[hist[Len(hist)].target] = hist[Len(hist) - 1].pre.score - 1
    /\ voteScore[hist[Len(hist)].target] = hist[Len(hist)].pre.score - 2

\* C6 witness: an upvote was created and the following downvote updated it
C6_Witness ==
  /\ AllIdle
  /\ Len(hist) >= 2
  /\ SameKey(hist[Len(hist) - 1], hist[Len(hist)])
  /\ hist[Len(hist) - 1].voteType = UPVOTE /\ hist[Len(hist) - 1].result = "created"
  /\ hist[Len(hist)].voteType = DOWNVOTE /\ hist[Len(hist)].result = "updated"

\* the scenario of C7: three castVote requests of one voter on one target of
\* author A, upvote, downvote, downvote, from reputation 100 and voteScore 0
C7_Scenario ==
  /\ Len(hist) = 3
  /\ Eligible(hist[1])
  /\ SameKey(hist[1], hist[2]) /\ SameKey(hist[2], hist[3])
  /\ hist[1].pre = [row |-> NoVote, score |-> 0, rep |-> 100]
  /\ hist[1].voteType = UPVOTE
  /\ hist[2].voteType = DOWNVOTE
  /\ hist[3].voteType = DOWNVOTE

\* C7: in that scenario the calls report created, updated, removed, with
\* voteScore 1, -1, 0 and reputation 105 (question) or 110 (answer), 98, 100.
C7_ConcreteScenario ==
  C7_Scenario =>
    /\ <<hist[1].result, hist[2].result, hist[3].result>>
         = <<"created", "updated", "removed">>
    /\ <<hist[1].post.score, hist[2].post.score, hist[3].post.score>>
         = <<1, 0 - 1, 0>>
    /\ hist[1].post.rep = (IF hist[1].targetType = "question" THEN 105 ELSE 110)
    /\ hist[2].post.rep = 98
    /\ hist[3].post.rep = 100

\* C7 witness: the scenario has run on the question
C7_Witness ==
  C7_Scenario /\ hist[1].targetType = "question" /\ hist[3].result = "removed"

\* C8: for a castVote of a non-author on a stored target, the prior row of the
\* key decides: no row, a row with the direction is created; a row with the
\* same direction is deleted; a row with the other direction is kept (same
\* _id) with its direction set to the requested one.
C8_TransitionByPriorRow ==
  \A i \in 1 .. Len(hist) :
    Eligible(hist[i]) =>
      LET e == hist[i]
      IN /\ e.pre.row = NoVote =>
              (e.result = "created" /\ e.post.row # NoVote
                 /\ e.post.row.voteType = e.voteType)
         /\ (e.pre.row # NoVote /\ e.pre.row.voteType = e.voteType) =>
              (e.result = "removed" /\ e.post.row = NoVote)
         /\ (e.pre.row # NoVote /\ e.pre.row.voteType # e.voteType) =>
              (e.result = "updated"
                 /\ e.post.row = [id |-> e.pre.row.id, voteType |-> e.voteType])

\* C8 witness: all three transitions were reported
C8_Witness ==
  \A x \in {"created", "updated", "removed"} :
    \E i \in 1 .. Len(hist) : Eligible(hist[i]) /\ hist[i].result = x

\* C9: within one castVote, the decision sequence is retried at most once
\* after duplicate-key errors.
C9_RetriedOnce ==
  \A p \in Procs : proc[p].retries <= 1

\* C10: when two castVote requests of different voters on targets of one
\* author have both completed, the author's reputation is the starting
\* reputation plus both reputation changes, when no sum falls below 0.
C10_NoLostReputationUpdate ==
  (/\ AllIdle
   /\ Len(hist) = 2
   /\ hist[1].voter # hist[2].voter
   /\ Succeeded(hist[1]) /\ Succeeded(hist[2])
   /\ LET r0 == IF hist[1].seq = 1 THEN hist[1].pre.rep ELSE hist[2].pre.rep
      IN /\ r0 + hist[1].change >= 0
         /\ r0 + hist[2].change >= 0
         /\ r0 + hist[1].change + hist[2].change >= 0)
  => LET r0 == IF hist[1].seq = 1 THEN hist[1].pre.rep ELSE hist[2].pre.rep
     IN reputation["A"] = r0 + hist[1].change + hist[2].change

\* C11: whatever castVote and removeVote requests overlap, every user's
\* stored reputation is an integer that is at least 0.
C11_ReputationNonNegative ==
  \A u \in Users : reputation[u] \in Int /\ reputation[u] >= 0

\* C11 witness: two downvotes are stored and the author's reputation is 0
C11_Witness ==
  /\ AllIdle
  /\ calls = 2
  /\ Cardinality(DownRows("t1")) = 2
  /\ reputation["A"] = 0

\* deltas of a reported transition, as the claim C12 lists them
ReplayScoreDelta(e) ==
  CASE e.result = "created" -> (IF e.voteType = "upvote" THEN 1 ELSE 0 - 1)
    [] e.result = "updated" -> (IF e.voteType = "upvote" THEN 2 ELSE 0 - 2)
    [] e.result = "removed" -> (IF e.voteType = "upvote" THEN 0 - 1 ELSE 1)
    [] OTHER -> 0

ReplayAward(targetType, voteType) ==
  IF voteType = "downvote" THEN 0 - 2
  ELSE IF targetType = "question" THEN 5 ELSE 10

ReplayRepDelta(e) ==
  CASE e.result = "created" -> ReplayAward(e.targetType, e.voteType)
    [] e.result = "updated" ->
         ReplayAward(e.targetType, e.voteType)
           - ReplayAward(e.targetType,
                         IF e.voteType = "upvote" THEN "downvote" ELSE "upvote")
    [] e.result = "removed" -> 0 - ReplayAward(e.targetType, e.voteType)
    [] OTHER -> 0

RECURSIVE ReplayScore(_, _)
ReplayScore(n, t) ==
  IF n = 0 THEN 0
  ELSE ReplayScore(n - 1, t)
         + (IF hist[n].target = t THEN ReplayScoreDelta(hist[n]) ELSE 0)

RECURSIVE ReplayRepSum(_)
ReplayRepSum(n) ==
  IF n = 0 THEN 0 ELSE ReplayRepSum(n - 1) + ReplayRepDelta(hist[n])

RECURSIVE ReplayRepFloored(_)
ReplayRepFloored(n) ==
  IF n = 0 THEN 0 ELSE Max(0, ReplayRepFloored(n - 1) + ReplayRepDelta(hist[n]))

\* the case of C12: sequential castVote calls from reputation 0 have completed
C12_Case ==
  AllIdle /\ Len(hist) >= 1 /\ hist[1].pre.rep = 0

\* C12 (as stated): after sequential castVote calls from an empty ledger with
\* voteScore 0 and reputation 0, the sums of the score and reputation deltas
\* of the reported transitions are the stored voteScore and reputation.
C12_ReplaySums ==
  C12_Case =>
    /\ \A t \in TargetIds : voteScore[t] = ReplayScore(Len(hist), t)
    /\ reputation["A"] = ReplayRepSum(Len(hist))

\* C12 (amended): the sum of the score deltas is the stored voteScore, and the
\* reputation deltas applied in order, each floored at 0, give the stored
\* reputation.
C12_ReplayFloored ==
  C12_Case =>
    /\ \A t \in TargetIds : voteScore[t] = ReplayScore(Len(hist), t)
    /\ reputation["A"] = ReplayRepFloored(Len(hist))

\* C12 witness: a created, an updated and a removed transition were replayed
C12_Witness ==
  /\ C12_Case
  /\ \A x \in {"created", "updated", "removed"} :
       \E i \in 1 .. Len(hist) : hist[i].result = x

\* C13: the newReputation of a successful sequential castVote response is the
\* author's stored reputation right after the call.
C13_NewReputationIsStored ==
  \A i \in 1 .. Len(hist) :
    Succeeded(hist[i]) => hist[i].newReputation = hist[i].post.rep

\* C14: a castVote naming a target that is not stored for its targetType never
\* gets past the target lookup, is answered 404, and the row of its key, the
\* voteScore under that id and the reputation are what they were before it.
C14_MissingTargetRejected ==
  /\ \A p \in Procs :
       (proc[p].op = "castVote"
          /\ <<proc[p].target, proc[p].targetType>> = MissingRequest)
       => proc[p].pc = "cv_findTarget"
  /\ \A i \in 1 .. Len(hist) :
       (hist[i].op = "castVote"
          /\ <<hist[i].target, hist[i].targetType>> = MissingRequest)
       => (hist[i].result = "404" /\ hist[i].post = hist[i].pre)

\* C14 witness: a castVote on the missing target was answered 404 while a
\* vote is stored
C14_Witness ==
  /\ votes # {}
  /\ \E i \in 1 .. Len(hist) :
       /\ <<hist[i].target, hist[i].targetType>> = MissingRequest
       /\ hist[i].result = "404"

\* C15: two overlapping castVote requests with the same voter, target,
\* targetType and direction, started with no row for the key, both succeed
\* and leave the rows, voteScore and reputation that the two calls leave when
\* run one after the other (created, then removed).
C15_CreateRaceSafe ==
  (/\ AllIdle
   /\ Len(hist) = 2
   /\ SameKey(hist[1], hist[2])
   /\ hist[1].voteType = hist[2].voteType
   /\ hist[1].pre.row = NoVote /\ hist[2].pre.row = NoVote)
  => LET e == hist[1]
         r0 == IF hist[1].seq = 1 THEN hist[1].pre.rep ELSE hist[2].pre.rep
         s0 == IF hist[1].seq = 1 THEN hist[1].pre.score ELSE hist[2].pre.score
         award == ReplayAward(e.targetType, e.voteType)
     IN /\ Succeeded(hist[1]) /\ Succeeded(hist[2])
        /\ FindVotes(votes, e.voter, e.target, e.targetType) = {}
        /\ voteScore[e.target] = s0
        /\ reputation["A"] = Max(0, Max(0, r0 + award) - award)

\* C16: when only creations have happened and an insert has just failed with
\* a duplicate-key error, with no row write pending in any handler, voteScore
\* is still upvote rows minus downvote rows: the failed insert changed nothing.
C16_FailedInsertLeavesScore ==
  \A p \in Procs :
    (/\ proc[p].pc = "tv_findOne" /\ proc[p].retries >= 1
     /\ \A q \in Procs :
          /\ proc[q].pc \notin {"tv_insert", "tv_remove", "tv_updateSave",
                                "tv_preRemove", "tv_updateScore"}
          /\ proc[q].action \in {"none", "created"}
     /\ \A i \in 1 .. Len(hist) : hist[i].result = "created")
    => voteScore[proc[p].target]
         = Cardinality(UpRows(proc[p].target)) - Cardinality(DownRows(proc[p].target))

\* a step of handler p while it serves a request
StepOf(p) == req[p].pc \notin {"idle", "done"} /\ req'[p] # req[p]

\* C17: acceptAnswer or unacceptAnswer on a stored answer, called by a user
\* who is not the author of the question (an admin included), ends with 403
\* Forbidden and at no step changes an isAccepted flag or the question's
\* acceptedAnswer.
C17_OnlyQuestionAuthorAccepts ==
  [][\A p \in Procs :
       (/\ StepOf(p)
        /\ req[p].op \in {"acceptAnswer", "unacceptAnswer"}
        /\ req[p].target \in AnswerDocs
        /\ req[p].user # Author("t1"))
       => /\ isAccepted' = isAccepted
          /\ acceptedAnswer' = acceptedAnswer
          /\ req'[p].pc = "done"
          /\ req'[p].result = "403"]_vars

\* the admin was refused the unaccept of the accepted answer, which stays
\* accepted
C17_Witness ==
  \E p \in Procs :
    /\ req[p].pc = "done" /\ req[p].op = "unacceptAnswer"
    /\ Role(req[p].user) = "admin" /\ req[p].result = "403"
    /\ req[p].target \in AnswerDocs
    /\ isAccepted[req[p].target]
    /\ acceptedAnswer = req[p].target

\* C18: after a successful acceptAnswer on an answer written by someone other
\* than the caller, the stored reputation of the answer's author is its value
\* at the request plus the answer_accepted award.
C18_AcceptAwardsReputation ==
  \A p \in Procs :
    (/\ req[p].pc = "done" /\ req[p].op = "acceptAnswer"
     /\ req[p].result = "200"
     /\ AnswerAuthor(req[p].target) # req[p].user)
    => reputation[AnswerAuthor(req[p].target)]
         = req[p].preRep + calculateReputationChange("answer_accepted")

\* two rows of one question by one viewer: the user when there is one,
\* otherwise the address
SameViewer(a, b) ==
  /\ a.question = b.question
  /\ IF a.user # "null"
       THEN a.user = b.user
       ELSE b.user = "null" /\ a.ipAddress = b.ipAddress

\* C19: no two ViewHistory rows of one question and one viewer lie less than
\* one hour apart, and views counts no more than the rows.
C19_ViewCooldown ==
  /\ \A i, j \in 1 .. Len(viewHistory) :
       (i < j /\ SameViewer(viewHistory[i], viewHistory[j]))
       => viewHistory[j].viewedAt - viewHistory[i].viewedAt >= oneHour
  /\ views <= Len(viewHistory)

\* C20: a tag is stored approved at creation exactly when its creator is an
\* admin (approvedBy being the creator); a stored tag changes only by an
\* admin's approveTag, which marks it approved by that admin; every step of a
\* non-admin's approveTag leaves the tags as they are and ends with 403.
C20_TagApproval ==
  [][/\ \A t \in tags' \ tags :
          IF TagsById(tags, t.id) = {}
            THEN IF Role(t.createdBy) = "admin"
                   THEN t.isApproved /\ t.approvedBy = t.createdBy
                   ELSE ~t.isApproved /\ t.approvedBy = "null"
            ELSE /\ t.isApproved
                 /\ \E p \in Procs :
                      /\ StepOf(p)
                      /\ req[p].op = "approveTag"
                      /\ req[p].tagId = t.id
                      /\ Role(req[p].user) = "admin"
                      /\ t.approvedBy = req[p].user
     /\ \A p \in Procs :
          (StepOf(p) /\ req[p].op = "approveTag" /\ Role(req[p].user) # "admin")
          => /\ tags' = tags
             /\ req'[p].pc = "done"
             /\ req'[p].result = "403"]_vars

\* a user's tag is stored unapproved after that user's approveTag on it was
\* refused, next to it a tag approved by the admin
C20_Witness ==
  \E t \in tags, p \in Procs :
    /\ Role(t.createdBy) = "user" /\ ~t.isApproved
    /\ req[p].pc = "done" /\ req[p].op = "approveTag"
    /\ req[p].tagId = t.id /\ req[p].user = t.createdBy
    /\ req[p].result = "403"

\* C21: when two castVote calls of one key both started while the same row,
\* of their direction, was stored, at most one of them removes it, and once
\* all calls have completed voteScore is upvote rows minus downvote rows.
C21_RemovalAppliedOnce ==
  (/\ AllIdle
   /\ Len(hist) = 3
   /\ \E i, j \in 1 .. 3 :
        /\ i < j
        /\ hist[i].pre.row # NoVote
        /\ hist[i].pre.row = hist[j].pre.row
        /\ hist[i].voteType = hist[i].pre.row.voteType
        /\ hist[j].voteType = hist[j].pre.row.voteType)
  => /\ Cardinality({i \in 1 .. 3 : hist[i].result = "removed"}) <= 1
     /\ voteScore["t1"] = Cardinality(UpRows("t1")) - Cardinality(DownRows("t1"))

\* C22: when castVote calls of different voters on one target overlap, the
\* target's voteScore after all of them is the sum of the score deltas of the
\* transitions they report (the score starts at 0).
C22_ScoreIsSumOfDeltas ==
  AllIdle => voteScore["t1"] = ReplayScore(Len(hist), "t1")

\* calls of both voters changed the score, and not all in the same way
C22_Witness ==
  /\ AllIdle
  /\ Len(hist) = 3
  /\ \E i, j \in 1 .. 3 :
       /\ hist[i].voter # hist[j].voter
       /\ hist[i].seq = 2 /\ hist[j].seq = 1
       /\ hist[i].result = "created" /\ hist[j].result = "created"
  /\ \E i \in 1 .. 3 : hist[i].result = "updated"

\* C23: between sequential castVote and removeVote calls voteScore is upvote
\* rows minus downvote rows, and a removeVote that found no row reports 404
\* and leaves row, score and reputation as they were.
C23_ScoreAfterRemoveVote ==
  AllIdle =>
    /\ voteScore["t1"] = Cardinality(UpRows("t1")) - Cardinality(DownRows("t1"))
    /\ \A i \in 1 .. Len(hist) :
         (hist[i].op = "removeVote" /\ hist[i].pre.row = NoVote)
         => /\ hist[i].result = "404"
            /\ hist[i].post = hist[i].pre

\* C24: a castVote handler retries its insert fewer times than there are
\* calls, and every handler that started eventually sends its response.
C24_EveryCallReturns ==
  /\ [](\A p \in {1, 2} : proc[p].retries < Max(calls, 1))
  /\ \A p \in {1, 2} : (proc[p].pc # "idle") ~> (proc[p].pc = "idle")

\* a handler whose insert was refused is reading the row again
C24_Witness ==
  \E p \in {1, 2} : proc[p].retries >= 1 /\ proc[p].pc = "tv_findOne"


\* the stored answers of t1 that are accepted and not deleted
AcceptedLive == {a \in AnswerDocs : isAccepted[a] /\ ~isDeleted[a]}

\* C25: when no acceptAnswer, unacceptAnswer or deleteAnswer handler is
\* running, at most one answer of the question that is not deleted has
\* isAccepted = true, and the question's acceptedAnswer is that answer when
\* there is one and null when there is none.
C25_OneAcceptedAnswer ==
  ReqQuiet =>
    /\ Cardinality(AcceptedLive) <= 1
    /\ acceptedAnswer =
         (IF AcceptedLive = {} THEN "null" ELSE CHOOSE a \in AcceptedLive : TRUE)

\* C26: when createAnswer and deleteAnswer calls run one at a time, between
\* two calls the question's answerCount is the number of its answers with
\* isDeleted = false.
C26_AnswerCountIsLiveAnswers == ReqQuiet => answerCount = LiveAnswers

\* the first step of a createAnswer request p that names a question which is
\* missing, deleted or closed, or whose author is the caller
RefusedCreateAnswer(p) ==
  /\ StepOf(p)
  /\ req[p].pc = "ca_findQuestion"
  /\ \/ \A q \in questions : q.id = req[p].target => q.status = DELETED
     \/ \E q \in questions :
          q.id = req[p].target /\ (q.status = CLOSED \/ q.author = req[p].user)

\* C27: createAnswer on a question that does not exist or is deleted answers
\* 404, and on a closed question or by the question's author answers 400; in
\* each case no answer is created and answerCount keeps its value.
C27_CreateAnswerRefused ==
  [][\A p \in Procs :
       RefusedCreateAnswer(p) =>
         /\ req'[p].pc = "done"
         /\ req'[p].result =
              (IF \A q \in questions : q.id = req[p].target => q.status = DELETED
                 THEN "404" ELSE "400")
         /\ newAnswers' = newAnswers
         /\ answerCount' = answerCount
         /\ isDeleted' = isDeleted
         /\ views' = views]_vars

\* a createAnswer by a user other than the author was refused with 400 on the
\* closed question t1
C27_Witness ==
  /\ req[1].op = "createAnswer" /\ req[1].pc = "done"
  /\ req[1].result = "400" /\ req[1].target = "t1" /\ req[1].user = "B"
  /\ \E q \in questions : q.id = "t1" /\ q.status = CLOSED
  /\ newAnswers = {}

\* C28: a reopenQuestion by an administrator on a question that closeQuestion
\* closed answers 200 and leaves the question with the status a new question
\* starts with and closedBy null.
C28_CloseReopenRoundTrip ==
  [][\A p \in Procs :
       (/\ StepOf(p)
        /\ req[p].pc = "ro_save"
        /\ \E q \in questions : q.id = req[p].target /\ q.status = CLOSED) =>
         /\ req'[p].result = "200"
         /\ \A q \in questions' :
              q.id = req[p].target => q.status = ACTIVE /\ q.closedBy = "null"]_vars

\* question t1 is deleted and the deleteQuestion that deleted it has answered
DeletedForGood ==
  /\ \E q \in questions : q.id = "t1" /\ q.status = DELETED
  /\ \A p \in Procs : req[p].pc \notin {"dq_save", "dq_decTags"}

\* the requests C29 names
LaterOps ==
  {"updateQuestion", "deleteQuestion", "closeQuestion", "reopenQuestion",
   "createAnswer"}

UsageOf(g) ==
  Cardinality({q \in questions : q.status # DELETED /\ g \in q.tags})

\* C30: when no createQuestion, updateQuestion or deleteQuestion handler is
\* running, every tag's usageCount is at least 0 and is the number of
\* questions that are not deleted and whose tag list contains the tag.
C30_UsageCountIsQuestionCount ==
  ReqQuiet =>
    \A g \in QTags : usageCount[g] >= 0 /\ usageCount[g] = UsageOf(g)

====
